---- MODULE Spec2Model ----
(***************************************************************************)
(* Authorization and activity-audit behaviour of the Manager API           *)
(* (triplee12/manager): the route handlers of src/api/v1 together with     *)
(* the service methods of src/services they call, over the relational      *)
(* store declared in src/models.                                           *)
(*                                                                         *)
(* One action is one HTTP request: the whole route handler, every service  *)
(* call in it included.  The store is modelled at the level of rows with   *)
(* the constraints the models declare (NOT NULL, UNIQUE, FOREIGN KEY with  *)
(* no ON DELETE rule, ORM cascade="all, delete").  An ActivityLog insert   *)
(* may fail for a reason outside the model (connection loss); that is the  *)
(* boolean a request carries per create_activity call.  Python exceptions  *)
(* are carried as strings; every handler's "except Exception" turns any of *)
(* them, HTTPException included, into a 500 response.  Request and         *)
(* response schema validation, ORM instance expiry and the user table's    *)
(* own CRUD are outside the model: the users are fixed.                    *)
(***************************************************************************)
EXTENDS Integers, FiniteSets, Sequences, TLC

VARIABLES teams, members, projects, tasks, comments, logs, seq, race

vars == <<teams, members, projects, tasks, comments, logs, seq, race>>

-----------------------------------------------------------------------------
(* Bounds of the model: rows ever inserted per table.                      *)
MaxTeams == 1
MaxMembers == 2
MaxProjects == 1
MaxTasks == 2
MaxLogs == 2

(* Identifiers are UUIDs in the code: one sort, never reused.              *)
NULL == "NULL"
\* A key the request body does not carry.
Absent == "absent"
TeamId(n) == <<"t1", "t2", "t3", "t4">>[n]
MemberId(n) == <<"m1", "m2", "m3", "m4">>[n]
ProjectId(n) == <<"p1", "p2", "p3", "p4">>[n]
TaskId(n) == <<"k1", "k2", "k3", "k4">>[n]
LogId(n) == <<"a1", "a2", "a3", "a4", "a5", "a6">>[n]

\* an id that names no row of any table
Missing == "zz"

Titles == {"x", "y"}

(* The user table.  role and is_superuser are independent columns.         *)
Users == {"u1", "u2", "u3", "u4"}
role == [u \in Users |-> IF u \in {"u3", "u4"} THEN "admin" ELSE "member"]
is_superuser == [u \in Users |-> u \in {"u2", "u4"}]

-----------------------------------------------------------------------------
(* The store as one value, so that a service is a function of it.          *)
DB == [teams |-> teams, members |-> members, projects |-> projects,
       tasks |-> tasks, comments |-> comments, logs |-> logs, seq |-> seq]

Store(d) ==
    /\ teams' = d.teams
    /\ members' = d.members
    /\ projects' = d.projects
    /\ tasks' = d.tasks
    /\ comments' = d.comments
    /\ logs' = d.logs
    /\ seq' = d.seq
    /\ race' = race

\* A service's outcome: the store after it, what it returned (a set: {} is
\* None / False), the exception it let escape ("" is none), whether its
\* entity write was committed.
Ret(d, ret, exc, committed) ==
    [db |-> d, ret |-> ret, exc |-> exc, committed |-> committed]

\* A handler's outcome: the store after it, the response's status and body
\* (a set of rows), whether an entity write was committed, and for each
\* ActivityServices.create_activity call whether it stored its row.
HTTP(d, status, ret, committed, audits) ==
    [db |-> d, status |-> status, ret |-> ret, committed |-> committed,
     audits |-> audits]

One(set) == CHOOSE x \in set : TRUE

-----------------------------------------------------------------------------
(* ActivityLog                                                             *)

ActivityData(user_id, project_id, task_id, team_id, comment_id, activity_type, entity, entity_id) ==
    [user_id |-> user_id, project_id |-> project_id, task_id |-> task_id,
     team_id |-> team_id, comment_id |-> comment_id,
     activity_type |-> activity_type, entity |-> entity,
     entity_id |-> entity_id]

ActivityLog(id, data) ==
    [id |-> id, user_id |-> data.user_id, project_id |-> data.project_id,
     task_id |-> data.task_id, team_id |-> data.team_id,
     comment_id |-> data.comment_id, activity_type |-> data.activity_type,
     entity |-> data.entity, entity_id |-> data.entity_id]

\* The foreign keys of activity_logs hold for a row to be inserted.
ActivityForeignKeys(d, data) ==
    /\ data.user_id \in Users
    /\ data.project_id = NULL \/ \E p \in d.projects : p.id = data.project_id
    /\ data.task_id = NULL \/ \E k \in d.tasks : k.id = data.task_id
    /\ data.team_id = NULL \/ \E t \in d.teams : t.id = data.team_id
    /\ data.comment_id = NULL \/ \E c \in d.comments : c.id = data.comment_id

\* ActivityServices.create_activity: insert and commit; on SQLAlchemyError
\* roll back and return None.  storeOk = FALSE is a failure of the store.
ActivityServices_create_activity(d, data, storeOk) ==
    IF storeOk /\ ActivityForeignKeys(d, data) /\ d.seq.log <= MaxLogs
    THEN LET row == ActivityLog(LogId(d.seq.log), data)
         IN  Ret([d EXCEPT !.logs = @ \cup {row}, !.seq.log = @ + 1],
                 {row}, "", TRUE)
    ELSE Ret(d, {}, "", FALSE)

\* No row of activity_logs references the row (FOREIGN KEY, no ON DELETE).
NoLogOfTeam(d, id) == \A a \in d.logs : a.team_id # id
NoLogOfProject(d, id) == \A a \in d.logs : a.project_id # id
NoLogOfTask(d, id) == \A a \in d.logs : a.task_id # id
NoLogOfComment(d, id) == \A a \in d.logs : a.comment_id # id

-----------------------------------------------------------------------------
(* TeamServices, TeamMemberServices                                        *)

Team(id, title, user_id) == [id |-> id, title |-> title, user_id |-> user_id]
TeamMember(id, team_id, user_id) ==
    [id |-> id, team_id |-> team_id, user_id |-> user_id]

\* uq_user_team_title, and title is NOT NULL
TeamConstraints(d, row) ==
    /\ row.title # NULL
    /\ \A t \in d.teams : t.id # row.id =>
           ~(t.user_id = row.user_id /\ t.title = row.title)

TeamServices_create_team(d, data) ==
    LET row == Team(TeamId(d.seq.team), data.title, data.user_id)
    IN  IF TeamConstraints(d, row)
        THEN Ret([d EXCEPT !.teams = @ \cup {row}, !.seq.team = @ + 1],
                 {row}, "", TRUE)
        ELSE Ret(d, {}, "", FALSE)

TeamServices_get_user_team_by_id(d, user_id, team_id) ==
    {t \in d.teams : t.user_id = user_id /\ t.id = team_id}

TeamServices_update_team(d, team_id, user_id, data) ==
    LET found == {t \in d.teams : t.id = team_id /\ t.user_id = user_id}
    IN  IF found = {} THEN Ret(d, {}, "", FALSE)
        ELSE LET team == CHOOSE t \in found : TRUE
                 row == [team EXCEPT !.title = data.title]
             IN  IF TeamConstraints(d, row)
                 THEN Ret([d EXCEPT !.teams = (@ \ {team}) \cup {row}],
                          {row}, "", TRUE)
                 ELSE Ret(d, {}, "", FALSE)

\* delete_team as it would be with no cascade on Team.members and
\* Team.projects and no foreign key held against the delete: the team row
\* alone goes.
delete_team_without_cascade(d, team_id, user_id) ==
    LET found == {t \in d.teams : t.id = team_id /\ t.user_id = user_id}
    IN  IF found = {} THEN Ret(d, {}, "", FALSE)
        ELSE Ret([d EXCEPT !.teams = @ \ found], found, "", TRUE)

\* session.delete(team): Team.members and Team.projects cascade
\* ("all, delete"); tasks and activity_logs hold plain foreign keys, so
\* a row of them that references a deleted row fails the commit.  The
\* method has no try: the IntegrityError escapes.
TeamServices_delete_team(d, team_id, user_id) ==
    LET found == {t \in d.teams : t.id = team_id /\ t.user_id = user_id}
    IN  IF found = {} THEN Ret(d, {}, "", FALSE)
        ELSE LET gone == {p \in d.projects : p.team_id = team_id}
             IN  IF /\ NoLogOfTeam(d, team_id)
                    /\ \A p \in gone : NoLogOfProject(d, p.id)
                    /\ \A p \in gone : \A k \in d.tasks : k.project_id # p.id
                 THEN Ret([d EXCEPT
                              !.teams = @ \ found,
                              !.members = {m \in @ : m.team_id # team_id},
                              !.projects = @ \ gone],
                          found, "", TRUE)
                 ELSE Ret(d, {}, "IntegrityError", FALSE)

\* add_member_to_team as it would be with the team looked up by id alone
\* (TeamServices.get_team_by_id), whoever asks.
add_member_to_team_of_any_owner(d, team_owner_id, data) ==
    LET team == {t \in d.teams : t.id = data.team_id}
    IN  IF team = {} THEN Ret(d, {}, "", FALSE)
        ELSE IF data.user_id \notin Users THEN Ret(d, {}, "", FALSE)
        ELSE LET row == TeamMember(MemberId(d.seq.member), data.team_id, data.user_id)
             IN  Ret([d EXCEPT !.members = @ \cup {row}, !.seq.member = @ + 1], {row}, "", TRUE)

\* The lookup's HTTPException is raised inside the method's own
\* "try ... except Exception: return None".
TeamMemberServices_add_member_to_team(d, team_owner_id, data) ==
    LET team == TeamServices_get_user_team_by_id(d, team_owner_id, data.team_id)
    IN  IF team = {} THEN Ret(d, {}, "", FALSE)
        ELSE IF data.user_id \notin Users THEN Ret(d, {}, "", FALSE)
        ELSE LET row == TeamMember(MemberId(d.seq.member), data.team_id,
                                   data.user_id)
             IN  Ret([d EXCEPT !.members = @ \cup {row}, !.seq.member = @ + 1],
                     {row}, "", TRUE)

\* result.scalars().first() over an unordered select: any matching row.
TeamMemberServices_remove_member_from_team(d, team_owner_id, team_id, user_id, pick) ==
    LET team == TeamServices_get_user_team_by_id(d, team_owner_id, team_id)
        found == {m \in d.members : m.team_id = team_id /\ m.user_id = user_id}
    IN  IF team = {} THEN Ret(d, {}, "HTTPException", FALSE)
        ELSE IF found = {} THEN Ret(d, {}, "", FALSE)
        ELSE IF pick \notin found THEN Ret(d, {}, "", FALSE)
        ELSE Ret([d EXCEPT !.members = @ \ {pick}], {pick}, "", TRUE)

-----------------------------------------------------------------------------
(* ProjectServices                                                         *)

Project(id, title, user_id, team_id) ==
    [id |-> id, title |-> title, user_id |-> user_id, team_id |-> team_id]

\* title NOT NULL, uq_user_project_title, team_id REFERENCES teams
ProjectConstraints(d, row) ==
    /\ row.title # NULL
    /\ \A p \in d.projects : p.id # row.id =>
           ~(p.user_id = row.user_id /\ p.title = row.title)
    /\ row.team_id = NULL \/ \E t \in d.teams : t.id = row.team_id

ProjectActivity(project, activity_type) ==
    ActivityData(project.user_id, project.id, NULL, project.team_id, NULL, activity_type, "project", project.id)

\* The team lookup compares Team.id with data["team_id"]: a null team_id
\* finds no team.  The HTTPException is no SQLAlchemyError and escapes.
\* After the commit the method returns the project only "if log".
ProjectServices_create_project(d, data, storeOk) ==
    LET team == TeamServices_get_user_team_by_id(d, data.user_id, data.team_id)
        row == Project(ProjectId(d.seq.project), data.title, data.user_id, data.team_id)
    IN  IF team = {} THEN Ret(d, {}, "HTTPException", FALSE)
        ELSE IF ~ProjectConstraints(d, row) THEN Ret(d, {}, "", FALSE)
        ELSE LET d1 == [d EXCEPT !.projects = @ \cup {row}, !.seq.project = @ + 1]
                 log == ActivityServices_create_activity(d1, ProjectActivity(row, "create"), storeOk)
             IN  Ret(log.db, IF log.ret # {} THEN {row} ELSE {}, "", TRUE)

ProjectServices_get_user_project_by_id(d, user_id, project_id) ==
    {p \in d.projects : p.id = project_id /\ p.user_id = user_id}

\* select(Project) outer-joined to its team's members, filtered by
\* "TeamMember.user_id == user_id OR Project.user_id == user_id":
\* one result row per joined member row that passes the filter.
MemberJoinRows(d, project, user_id) ==
    LET joined == {m \in d.members : m.team_id = project.team_id}
    IN  IF joined = {}
        THEN IF project.user_id = user_id THEN 1 ELSE 0
        ELSE Cardinality({m \in joined : m.user_id = user_id \/ project.user_id = user_id})

\* scalar_one_or_none(): more than one row raises MultipleResultsFound,
\* a SQLAlchemyError, which the method answers with None.
ProjectServices_get_project_if_member(d, project_id, user_id) ==
    {p \in d.projects : p.id = project_id /\ MemberJoinRows(d, p, user_id) = 1}

\* Every key of the patch is set, the null ones too.
ProjectServices_update_project(d, project_id, user_id, data, storeOk) ==
    LET found == {p \in d.projects : p.id = project_id /\ p.user_id = user_id}
    IN  IF found = {} THEN Ret(d, {}, "", FALSE)
        ELSE LET project == CHOOSE p \in found : TRUE
                 row == [project EXCEPT !.title = data.title, !.team_id = data.team_id]
             IN  IF ~ProjectConstraints(d, row) THEN Ret(d, {}, "", FALSE)
                 ELSE LET d1 == [d EXCEPT !.projects = (@ \ {project}) \cup {row}]
                          log == ActivityServices_create_activity(d1, ProjectActivity(row, "update"), storeOk)
                      IN  Ret(log.db, IF log.ret # {} THEN {row} ELSE {}, "", TRUE)

\* The row is deleted and committed first; the activity row that follows
\* carries project_id of the deleted project.  Returns True only "if log".
ProjectServices_delete_project(d, project_id, user_id, storeOk) ==
    LET found == {p \in d.projects : p.id = project_id /\ p.user_id = user_id}
    IN  IF found = {} THEN Ret(d, {}, "", FALSE)
        ELSE LET project == CHOOSE p \in found : TRUE
             IN  IF ~(/\ NoLogOfProject(d, project_id)
                      /\ \A k \in d.tasks : k.project_id # project_id)
                 THEN Ret(d, {}, "", FALSE)
                 ELSE LET d1 == [d EXCEPT !.projects = @ \ {project}]
                          log == ActivityServices_create_activity(d1, ProjectActivity(project, "delete"), storeOk)
                      IN  Ret(log.db, IF log.ret # {} THEN {project} ELSE {}, "", TRUE)

-----------------------------------------------------------------------------
(* TaskServices, TaskCommentService                                        *)

Task(id, title, user_id, assigned_id, project_id) ==
    [id |-> id, title |-> title, user_id |-> user_id,
     assigned_id |-> assigned_id, project_id |-> project_id]

TaskComment(id, task_id, user_id, comment) ==
    [id |-> id, task_id |-> task_id, user_id |-> user_id, comment |-> comment]

\* title NOT NULL, uq_user_task_title, project_id NOT NULL REFERENCES
\* projects, assigned_id REFERENCES user
TaskConstraints(d, row) ==
    /\ row.title # NULL
    /\ \A k \in d.tasks : k.id # row.id =>
           ~(k.user_id = row.user_id /\ k.title = row.title)
    /\ \E p \in d.projects : p.id = row.project_id
    /\ row.assigned_id = NULL \/ row.assigned_id \in Users

TaskActivity(task, activity_type) ==
    ActivityData(task.user_id, task.project_id, task.id, NULL, NULL, activity_type, "task", task.id)

CommentActivity(comment, activity_type) ==
    ActivityData(comment.user_id, NULL, comment.task_id, NULL, comment.id, activity_type, "comment", comment.id)

\* No check of the caller against the project.  The activity row's fate
\* is not looked at.
TaskServices_create_task(d, data, storeOk) ==
    LET row == Task(TaskId(d.seq.task), data.title, data.user_id, data.assigned_id, data.project_id)
    IN  IF ~TaskConstraints(d, row) THEN Ret(d, {}, "", FALSE)
        ELSE LET d1 == [d EXCEPT !.tasks = @ \cup {row}, !.seq.task = @ + 1]
                 log == ActivityServices_create_activity(d1, TaskActivity(row, "create"), storeOk)
             IN  Ret(log.db, {row}, "", TRUE)

TaskServices_get_task_by_id(d, task_id, user_id) ==
    {k \in d.tasks : k.id = task_id /\ (k.user_id = user_id \/ k.assigned_id = user_id)}

\* update_task as it would be with the task looked up by id alone.
update_task_of_any_user(d, task_id, user_id, data, storeOk) ==
    LET found == {k \in d.tasks : k.id = task_id}
    IN  IF found = {} THEN Ret(d, {}, "", FALSE)
        ELSE LET task == One(found)
                 row == [task EXCEPT !.title = data.title, !.assigned_id = data.assigned_id]
             IN  IF ~TaskConstraints(d, row) THEN Ret(d, {}, "", FALSE)
                 ELSE LET d1 == [d EXCEPT !.tasks = (@ \ {task}) \cup {row}]
                          log == ActivityServices_create_activity(d1, TaskActivity(row, "update"), storeOk)
                      IN  Ret(log.db, {row}, "", TRUE)

\* The keys update_task may set; of them the rows here carry title and
\* assigned_id, and due_date stands for the NOT NULL columns due_date,
\* status and priority, whose values are not kept.
ALLOWED_FIELDS == {"title", "description", "status", "priority", "due_date", "assigned_id"}

\* "for key, value in data.items(): if key in ALLOWED_FIELDS"
Patched(data, key) == key \in DOMAIN data /\ data[key] # Absent /\ key \in ALLOWED_FIELDS

\* update_task as it would be with setattr for every key of the patch.
update_task_setting_every_key(d, task_id, user_id, data, storeOk) ==
    LET found == {k \in d.tasks : k.id = task_id /\ (k.assigned_id = user_id \/ k.user_id = user_id)}
        key(name) == name \in DOMAIN data /\ data[name] # Absent
    IN  IF found = {} THEN Ret(d, {}, "", FALSE)
        ELSE LET task == One(found)
                 row == [task EXCEPT !.title = IF key("title") THEN data.title ELSE @,
                                     !.assigned_id = IF key("assigned_id") THEN data.assigned_id ELSE @,
                                     !.project_id = IF key("project_id") THEN data.project_id ELSE @,
                                     !.user_id = IF key("user_id") THEN data.user_id ELSE @]
             IN  IF ~TaskConstraints(d, row) \/ (key("due_date") /\ data.due_date = NULL) THEN Ret(d, {}, "", FALSE)
                 ELSE LET d1 == [d EXCEPT !.tasks = (@ \ {task}) \cup {row}]
                          log == ActivityServices_create_activity(d1, TaskActivity(row, "update"), storeOk)
                      IN  Ret(log.db, {row}, "", TRUE)

\* Of the patch only ALLOWED_FIELDS are set, each to the value the patch
\* gives, None included; the commit fails on a NOT NULL column set to None.
TaskServices_update_task(d, task_id, user_id, data, storeOk) ==
    LET found == {k \in d.tasks : k.id = task_id /\ (k.assigned_id = user_id \/ k.user_id = user_id)}
    IN  IF found = {} THEN Ret(d, {}, "", FALSE)
        ELSE LET task == One(found)
                 row == [task EXCEPT !.title = IF Patched(data, "title") THEN data.title ELSE @,
                                     !.assigned_id = IF Patched(data, "assigned_id") THEN data.assigned_id ELSE @,
                                     !.project_id = IF Patched(data, "project_id") THEN data.project_id ELSE @,
                                     !.user_id = IF Patched(data, "user_id") THEN data.user_id ELSE @]
             IN  IF ~TaskConstraints(d, row) \/ (Patched(data, "due_date") /\ data.due_date = NULL) THEN Ret(d, {}, "", FALSE)
                 ELSE LET d1 == [d EXCEPT !.tasks = (@ \ {task}) \cup {row}]
                          log == ActivityServices_create_activity(d1, TaskActivity(row, "update"), storeOk)
                      IN  Ret(log.db, {row}, "", TRUE)

\* Only Task.user_id is compared.  The activity row is written (and
\* committed) before the delete; Task.comments cascade, activity_logs
\* hold plain foreign keys to tasks and task_comments.
TaskServices_delete_task(d, task_id, user_id, storeOk) ==
    LET found == {k \in d.tasks : k.id = task_id /\ k.user_id = user_id}
    IN  IF found = {} THEN Ret(d, {}, "", FALSE)
        ELSE LET task == One(found)
                 log == ActivityServices_create_activity(d, TaskActivity(task, "delete"), storeOk)
                 gone == {c \in d.comments : c.task_id = task_id}
             IN  IF NoLogOfTask(log.db, task_id) /\ \A c \in gone : NoLogOfComment(log.db, c.id)
                 THEN Ret([log.db EXCEPT !.tasks = @ \ {task}, !.comments = @ \ gone], {task}, "", TRUE)
                 ELSE Ret(log.db, {}, "", FALSE)

\* "await self.session.add(comment)": add() returns None, awaiting it is
\* a TypeError, before any commit.
TaskCommentService_create_comment(d, data) ==
    Ret(d, {}, "TypeError", FALSE)

\* user_id is not part of the query.
TaskCommentService_get_comment_by_id(d, comment_id, user_id) ==
    {c \in d.comments : c.id = comment_id}

\* comment is NOT NULL.
TaskCommentService_update_comment(d, comment_id, user_id, data, storeOk) ==
    LET found == {c \in d.comments : c.id = comment_id /\ c.user_id = user_id}
    IN  IF found = {} THEN Ret(d, {}, "", FALSE)
        ELSE LET comment == One(found)
                 row == [comment EXCEPT !.comment = data.comment]
             IN  IF row.comment = NULL THEN Ret(d, {}, "", FALSE)
                 ELSE LET d1 == [d EXCEPT !.comments = (@ \ {comment}) \cup {row}]
                          log == ActivityServices_create_activity(d1, CommentActivity(row, "update"), storeOk)
                      IN  Ret(log.db, {row}, "", TRUE)

TaskCommentService_delete_comment(d, comment_id, user_id, storeOk) ==
    LET found == {c \in d.comments : c.user_id = user_id /\ c.id = comment_id}
    IN  IF found = {} THEN Ret(d, {}, "", FALSE)
        ELSE LET comment == One(found)
                 log == ActivityServices_create_activity(d, CommentActivity(comment, "delete"), storeOk)
             IN  IF NoLogOfComment(log.db, comment_id)
                 THEN Ret([log.db EXCEPT !.comments = @ \ {comment}], {comment}, "", TRUE)
                 ELSE Ret(log.db, {}, "", FALSE)

-----------------------------------------------------------------------------
(* core/utils/check_access.py and the ActivityServices methods it guards   *)

\* require_project_access as it would be with Project.user_id read in
\* place of owner_id: the owner passes, and so does the owner of the
\* project's team.
require_project_access_by_user_id(d, project_id, user_id) ==
    LET project == {p \in d.projects : p.id = project_id}
        membership == {t \in d.teams : t.user_id = user_id /\ \E p \in project : p.team_id = t.id}
    IN  IF project = {} THEN "HTTPException"
        ELSE IF One(project).user_id # user_id /\ membership = {} THEN "HTTPException"
        ELSE ""

\* The exception the decorator raises ("" lets the call through).  Once
\* the project is found the decorator reads project.owner_id, which the
\* Project model does not have.
require_project_access(d, project_id, user_id) ==
    IF \A p \in d.projects : p.id # project_id THEN "HTTPException"
    ELSE "AttributeError"

\* The assignee passes.  For anyone else the decorator looks for a
\* team_members row whose id equals the user's id.
require_task_access(d, task_id, user_id) ==
    LET task == {k \in d.tasks : k.id = task_id}
        membership == {m \in d.members : \E m2 \in d.members : m2.id = user_id}
    IN  IF task = {} THEN "HTTPException"
        ELSE IF One(task).assigned_id # user_id /\ membership = {} THEN "HTTPException"
        ELSE ""

ActivityServices_get_all_task_activities(d, task_id, user_id) ==
    LET access == require_task_access(d, task_id, user_id)
    IN  IF access # "" THEN Ret(d, {}, access, FALSE)
        ELSE Ret(d, {a \in d.logs : a.task_id = task_id}, "", FALSE)

ActivityServices_delete_activity(d, activity_id, project_id, user_id) ==
    LET access == require_project_access(d, project_id, user_id)
        found == {a \in d.logs : a.id = activity_id /\ a.project_id = project_id}
    IN  IF access # "" THEN Ret(d, {}, access, FALSE)
        ELSE IF found = {} THEN Ret(d, {}, "", FALSE)
        ELSE Ret([d EXCEPT !.logs = @ \ found], found, "", TRUE)

\* The statement filter_activities builds: the select filtered by
\* project_id is replaced, in both branches of "if entity", by one
\* filtered by activity_type (and entity) alone.
filter_activities_statement(d, type, project_id, entity) ==
    {a \in d.logs : a.activity_type = type /\ (entity # NULL => a.entity = entity)}

ActivityServices_filter_activities(d, type, project_id, user_id, entity) ==
    LET access == require_project_access(d, project_id, user_id)
    IN  IF access # "" THEN Ret(d, {}, access, FALSE)
        ELSE Ret(d, filter_activities_statement(d, type, project_id, entity), "", FALSE)

-----------------------------------------------------------------------------
(* Route handlers of src/api/v1: the response to one request, as a         *)
(* function of the store.  user is current_active_user.  Every handler     *)
(* body sits in "try ... except Exception: raise HTTPException(500)", so   *)
(* the HTTPException a handler raises for a missing row is answered 500.   *)

TeamActivity(team, activity_type) ==
    ActivityData(team.user_id, NULL, NULL, team.id, NULL, activity_type, "team", team.id)

\* POST /teams/create/new
Route_create_team(d, user, title, ok) ==
    LET r == TeamServices_create_team(d, [title |-> title, user_id |-> user])
    IN  IF r.ret = {} THEN HTTP(r.db, 500, {}, FALSE, <<>>)
        ELSE LET log == ActivityServices_create_activity(r.db, TeamActivity(One(r.ret), "create"), ok)
             IN  HTTP(log.db, 201, r.ret, TRUE, <<log.committed>>)

\* The branch that serves any owner's rows.
AdminBranch(user) == is_superuser[user] \/ role[user] = "admin"

\* GET /teams/ : both branches call TeamServices.get_all_teams with
\* owner_id, a parameter it does not have (TypeError).
Route_get_all_teams(d, user, owner_id) ==
    IF AdminBranch(user) /\ owner_id = NULL THEN HTTP(d, 500, {}, FALSE, <<>>)
    ELSE HTTP(d, 500, {}, FALSE, <<>>)

\* GET /teams/id/{team_id}/user
Route_get_user_team_by_id(d, user, team_id) ==
    LET team == TeamServices_get_user_team_by_id(d, user, team_id)
    IN  HTTP(d, IF team = {} THEN 500 ELSE 200, team, FALSE, <<>>)

\* PATCH /teams/{team_id}/update/team
Route_update_team(d, user, team_id, title, ok) ==
    LET r == TeamServices_update_team(d, team_id, user, [title |-> title])
    IN  IF r.ret = {} THEN HTTP(r.db, 500, {}, FALSE, <<>>)
        ELSE LET log == ActivityServices_create_activity(r.db, TeamActivity(One(r.ret), "update"), ok)
             IN  HTTP(log.db, 200, r.ret, TRUE, <<log.committed>>)

\* DELETE /teams/{team_id}/delete/team : the activity row written after
\* the delete names the deleted team in team_id.
Route_delete_team(d, user, team_id, ok) ==
    LET r == TeamServices_delete_team(d, team_id, user)
    IN  IF r.exc # "" \/ r.ret = {} THEN HTTP(r.db, 500, {}, FALSE, <<>>)
        ELSE LET log == ActivityServices_create_activity(r.db, ActivityData(user, NULL, NULL, team_id, NULL, "delete", "team", team_id), ok)
             IN  HTTP(log.db, 204, {}, TRUE, <<log.committed>>)

\* POST /members/add/new : the activity row's user_id is the added user.
Route_create_team_member(d, user, team_id, user_id, ok) ==
    LET r == TeamMemberServices_add_member_to_team(d, user, [team_id |-> team_id, user_id |-> user_id])
    IN  IF r.ret = {} THEN HTTP(r.db, 500, {}, FALSE, <<>>)
        ELSE LET m == One(r.ret)
                 log == ActivityServices_create_activity(r.db, ActivityData(m.user_id, NULL, NULL, m.team_id, NULL, "create", "team_member", m.id), ok)
             IN  HTTP(log.db, 201, r.ret, TRUE, <<log.committed>>)

\* GET /members/all : both branches call
\* TeamMemberServices.get_team_members with team_owner_id, a parameter
\* it does not have (TypeError).
Route_get_all_team_members(d, user, team_id, owner_id) ==
    IF AdminBranch(user) /\ owner_id = NULL THEN HTTP(d, 500, {}, FALSE, <<>>)
    ELSE HTTP(d, 500, {}, FALSE, <<>>)

\* DELETE /members/{team_member_id}/delete : team_member_id is used as
\* the member's user id, in the lookup and in the activity row.
Route_delete_team_member_by_id(d, user, team_member_id, team_id, pick, ok) ==
    LET r == TeamMemberServices_remove_member_from_team(d, user, team_id, team_member_id, pick)
    IN  IF r.exc # "" \/ r.ret = {} THEN HTTP(r.db, 500, {}, FALSE, <<>>)
        ELSE LET log == ActivityServices_create_activity(r.db, ActivityData(team_member_id, NULL, NULL, team_id, NULL, "delete", "team_member", team_member_id), ok)
             IN  HTTP(log.db, 204, {}, TRUE, <<log.committed>>)

\* POST /projects/create/new : a second activity row after the service's.
Route_create_project(d, user, title, team_id, ok1, ok2) ==
    LET r == ProjectServices_create_project(d, [title |-> title, team_id |-> team_id, user_id |-> user], ok1)
    IN  IF r.exc # "" \/ r.ret = {}
        THEN HTTP(r.db, 500, {}, r.committed, IF r.committed THEN <<FALSE>> ELSE <<>>)
        ELSE LET log == ActivityServices_create_activity(r.db, ProjectActivity(One(r.ret), "create"), ok2)
             IN  HTTP(log.db, 201, r.ret, TRUE, <<TRUE, log.committed>>)

\* schemas.CreateProject as it would be with "team_id: Optional[uuid.UUID]
\* = None": a body without team_id passes.
CreateProject_team_id_defaulted(body) ==
    body.title \notin {Absent, NULL} /\ body.description # Absent

\* schemas.CreateProject validates the body: "title: str", "description:
\* Optional[str]" and "team_id: Optional[uuid.UUID]" have no default, so
\* each key must be present; the last two may be null.
CreateProject(body) ==
    body.title \notin {Absent, NULL} /\ body.description # Absent /\ body.team_id # Absent

\* POST /projects/create/new as the application serves it: the body is
\* validated against CreateProject before the handler is entered, and a
\* body that fails is answered 422 without the handler running.
Request_create_project(d, user, body, ok1, ok2) ==
    IF ~CreateProject(body) THEN HTTP(d, 422, {}, FALSE, <<>>)
    ELSE Route_create_project(d, user, body.title, body.team_id, ok1, ok2)

\* GET /projects/{project_id}
Route_get_project_by_id(d, user, project_id) ==
    LET project == ProjectServices_get_user_project_by_id(d, user, project_id)
    IN  HTTP(d, IF project = {} THEN 500 ELSE 200, project, FALSE, <<>>)

\* GET /projects/{project_id}/team/is_member
Route_get_project_if_member(d, user, project_id) ==
    LET project == ProjectServices_get_project_if_member(d, project_id, user)
    IN  HTTP(d, IF project = {} THEN 500 ELSE 200, project, FALSE, <<>>)

\* GET /projects/{project_id}/user/{user_id}
Route_get_project_by_project_id_and_user_id(d, user, project_id, user_id) ==
    LET owner == IF AdminBranch(user) THEN user_id ELSE user
        project == ProjectServices_get_user_project_by_id(d, owner, project_id)
    IN  HTTP(d, IF project = {} THEN 500 ELSE 200, project, FALSE, <<>>)

\* PATCH /projects/{project_id}/update
Route_update_project(d, user, project_id, title, team_id, ok1, ok2) ==
    LET r == ProjectServices_update_project(d, project_id, user, [title |-> title, team_id |-> team_id], ok1)
    IN  IF r.ret = {}
        THEN HTTP(r.db, 500, {}, r.committed, IF r.committed THEN <<FALSE>> ELSE <<>>)
        ELSE LET log == ActivityServices_create_activity(r.db, ProjectActivity(One(r.ret), "update"), ok2)
             IN  HTTP(log.db, 200, r.ret, TRUE, <<TRUE, log.committed>>)

\* schemas.UpdateProject validates the body: "title: Optional[str]",
\* "description: Optional[str]" and "team_id: Optional[uuid.UUID]" have no
\* default, so each key must be present; each may be null.
UpdateProject(body) ==
    body.title # Absent /\ body.description # Absent /\ body.team_id # Absent

\* PATCH /projects/{project_id}/update as the application serves it: a
\* body that fails UpdateProject is answered 422 without the handler
\* running.
Request_update_project(d, user, project_id, body, ok1, ok2) ==
    IF ~UpdateProject(body) THEN HTTP(d, 422, {}, FALSE, <<>>)
    ELSE Route_update_project(d, user, project_id, body.title, body.team_id, ok1, ok2)

\* DELETE /projects/{project_id}/delete : the service answers True, and
\* the handler reads deleted_project.user_id of it (AttributeError).
Route_delete_project(d, user, project_id, ok) ==
    LET r == ProjectServices_delete_project(d, project_id, user, ok)
    IN  IF r.ret = {}
        THEN HTTP(r.db, 500, {}, r.committed, IF r.committed THEN <<FALSE>> ELSE <<>>)
        ELSE HTTP(r.db, 500, {}, TRUE, <<TRUE>>)

\* POST /tasks/create/new : a second activity row after the service's.
Route_create_task(d, user, title, project_id, assigned_id, ok1, ok2) ==
    LET r == TaskServices_create_task(d, [title |-> title, project_id |-> project_id, assigned_id |-> assigned_id, user_id |-> user], ok1)
    IN  IF r.ret = {} THEN HTTP(r.db, 500, {}, FALSE, <<>>)
        ELSE LET log == ActivityServices_create_activity(r.db, TaskActivity(One(r.ret), "create"), ok2)
             IN  HTTP(log.db, 201, r.ret, TRUE, <<Cardinality(r.db.logs) > Cardinality(d.logs), log.committed>>)

\* get_task_by_id as it would be if a read were recorded as an activity.
get_task_by_id_recorded(d, user, task_id) ==
    LET task == TaskServices_get_task_by_id(d, task_id, user)
    IN  IF task = {} THEN HTTP(d, 500, {}, FALSE, <<>>)
        ELSE HTTP(ActivityServices_create_activity(d, TaskActivity(One(task), "read"), TRUE).db, 200, task, FALSE, <<>>)

\* GET /tasks/{task_id}
Route_get_task_by_id(d, user, task_id) ==
    LET task == TaskServices_get_task_by_id(d, task_id, user)
    IN  HTTP(d, IF task = {} THEN 500 ELSE 200, task, FALSE, <<>>)

\* A body of PATCH /tasks/{task_id}/update: the keys of UpdateTask kept
\* here, and project_id and user_id, which it does not declare.
TaskBody(title, assigned_id, due_date) ==
    [title |-> title, assigned_id |-> assigned_id, due_date |-> due_date, project_id |-> Absent, user_id |-> Absent]

\* schemas.UpdateTask and task.model_dump(): every declared key, None for
\* one the body does not carry; undeclared keys are dropped (extra="ignore").
UpdateTask(body) ==
    [title |-> IF body.title = Absent THEN NULL ELSE body.title,
     assigned_id |-> IF body.assigned_id = Absent THEN NULL ELSE body.assigned_id,
     due_date |-> IF body.due_date = Absent THEN NULL ELSE body.due_date]

\* PATCH /tasks/{task_id}/update
Request_update_task(d, user, task_id, body, ok1, ok2) ==
    LET task_data == UpdateTask(body)
        r == TaskServices_update_task(d, task_id, user, task_data, ok1)
    IN  IF r.ret = {} THEN HTTP(r.db, 500, {}, FALSE, <<>>)
        ELSE LET log == ActivityServices_create_activity(r.db, TaskActivity(One(r.ret), "update"), ok2)
             IN  HTTP(log.db, 200, r.ret, TRUE, <<Cardinality(r.db.logs) > Cardinality(d.logs), log.committed>>)

\* The same with a body that carries title, assigned_id and the NOT NULL
\* columns.
Route_update_task(d, user, task_id, title, assigned_id, ok1, ok2) ==
    Request_update_task(d, user, task_id, TaskBody(title, assigned_id, "today"), ok1, ok2)

\* DELETE /tasks/{task_id}/delete : the service answers True, and the
\* handler reads deleted_task.user_id of it (AttributeError).
Route_delete_task(d, user, task_id, ok) ==
    LET r == TaskServices_delete_task(d, task_id, user, ok)
        audits == IF r.db.logs # d.logs THEN <<TRUE>> ELSE <<>>
    IN  IF r.ret = {} THEN HTTP(r.db, 500, {}, FALSE, audits)
        ELSE HTTP(r.db, 500, {}, TRUE, audits)

\* POST /comments/create/new
Route_create_comment(d, user, task_id, comment) ==
    LET r == TaskCommentService_create_comment(d, [comment |-> comment, task_id |-> task_id, user_id |-> user])
    IN  HTTP(r.db, 500, {}, FALSE, <<>>)

\* GET /comments/{comment_id}
Route_get_comment_by_id(d, user, comment_id) ==
    LET comment == TaskCommentService_get_comment_by_id(d, comment_id, user)
    IN  HTTP(d, IF comment = {} THEN 500 ELSE 200, comment, FALSE, <<>>)

\* PATCH /comments/{comment_id}/update
Route_update_comment(d, user, comment_id, comment, ok1, ok2) ==
    LET r == TaskCommentService_update_comment(d, comment_id, user, [comment |-> comment], ok1)
    IN  IF r.ret = {} THEN HTTP(r.db, 500, {}, FALSE, <<>>)
        ELSE LET log == ActivityServices_create_activity(r.db, CommentActivity(One(r.ret), "update"), ok2)
             IN  HTTP(log.db, 200, r.ret, TRUE, <<Cardinality(r.db.logs) > Cardinality(d.logs), log.committed>>)

\* DELETE /comments/{comment_id}/delete : the service answers True, and
\* the handler reads is_deleted.user_id of it (AttributeError).
Route_delete_comment(d, user, comment_id, ok) ==
    LET r == TaskCommentService_delete_comment(d, comment_id, user, ok)
        audits == IF r.db.logs # d.logs THEN <<TRUE>> ELSE <<>>
    IN  IF r.ret = {} THEN HTTP(r.db, 500, {}, FALSE, audits)
        ELSE HTTP(r.db, 500, {}, TRUE, audits)

\* POST /activities/create/new : any user, any row.
Route_create_activity(d, user, project_id, ok) ==
    LET log == ActivityServices_create_activity(d, ActivityData(user, project_id, NULL, NULL, NULL, "create", "project", project_id), ok)
    IN  HTTP(log.db, 200, log.ret, FALSE, <<log.committed>>)

\* GET /activities/tasks/{task_id}/activities
Route_get_task_activities(d, user, task_id) ==
    LET r == ActivityServices_get_all_task_activities(d, task_id, user)
    IN  IF r.exc # "" \/ r.ret = {} THEN HTTP(d, 500, {}, FALSE, <<>>)
        ELSE HTTP(d, 200, r.ret, FALSE, <<>>)

\* DELETE /activities/{activity_id}/projects/{project_id}/delete
Route_delete_activity_by_id(d, user, activity_id, project_id) ==
    LET r == ActivityServices_delete_activity(d, activity_id, project_id, user)
    IN  IF r.exc # "" \/ r.ret = {} THEN HTTP(r.db, 500, {}, FALSE, <<>>)
        ELSE HTTP(r.db, 204, {}, TRUE, <<>>)

\* GET /activities/filter : the handler passes activity_type=, a keyword
\* filter_activities does not have (TypeError), to a method whose
\* decorator raises before that.
Route_filter_activities(d, user, project_id, activity_type, entity) ==
    LET r == ActivityServices_filter_activities(d, activity_type, project_id, user, entity)
    IN  IF r.exc # "" THEN HTTP(d, 500, {}, FALSE, <<>>)
        ELSE HTTP(d, 500, {}, FALSE, <<>>)

-----------------------------------------------------------------------------
(* api/v1/users/user_routes.py                                             *)

\* A row of the user table, as listed.
User(id) == [id |-> id, role |-> role[id], is_superuser |-> is_superuser[id]]

UserManager_get_all_users(d) == {User(u) : u \in Users}
UserManager_get_all_admins(d) == {User(u) : u \in {v \in Users : role[v] = "admin"}}
UserManager_get_all_members(d) == {User(u) : u \in {v \in Users : role[v] = "member"}}

\* The dependency as it would be with Depends(get_user_manager).
get_user_manager(d) == "UserManager"

\* "user_manager: UserManager = Depends(get_user_db)": what the handlers
\* receive is the SQLAlchemyUserDatabase that get_user_db yields.
get_user_db(d) == "SQLAlchemyUserDatabase"

\* "if not user.is_superuser and not user.role != 'admin'": the 401 is
\* raised inside the try.
Unauthorized(user) == ~is_superuser[user] /\ ~(role[user] # "admin")

\* GET /users, /admins, /members : past the check the handler calls
\* get_all_users (get_all_admins, get_all_members) of user_manager, which
\* a SQLAlchemyUserDatabase does not have (AttributeError).
Route_get_all_users(d, user) ==
    IF Unauthorized(user) THEN HTTP(d, 500, {}, FALSE, <<>>)
    ELSE IF get_user_db(d) # "UserManager" THEN HTTP(d, 500, {}, FALSE, <<>>)
    ELSE HTTP(d, 200, UserManager_get_all_users(d), FALSE, <<>>)

Route_get_all_admins(d, user) ==
    IF Unauthorized(user) THEN HTTP(d, 500, {}, FALSE, <<>>)
    ELSE IF get_user_db(d) # "UserManager" THEN HTTP(d, 500, {}, FALSE, <<>>)
    ELSE HTTP(d, 200, UserManager_get_all_admins(d), FALSE, <<>>)

Route_get_all_members(d, user) ==
    IF Unauthorized(user) THEN HTTP(d, 500, {}, FALSE, <<>>)
    ELSE IF get_user_db(d) # "UserManager" THEN HTTP(d, 500, {}, FALSE, <<>>)
    ELSE HTTP(d, 200, UserManager_get_all_members(d), FALSE, <<>>)

-----------------------------------------------------------------------------
(* The list routes: order, limit and offset are query parameters, and the  *)
(* services hand them to the statement as they come.                       *)

\* The place of a row in created_at order: ids are given in that order.
Created(id) == CHOOSE n \in 1..4 : id \in {ProjectId(n), TaskId(n)}

\* statement.order_by(..).limit(limit).offset(offset), executed: the store
\* refuses a negative LIMIT or OFFSET (SQLAlchemyError, answered as None by
\* the services), and else answers the rows offset+1 .. offset+limit.
Execute(rows, order, limit, offset) ==
    LET before(r) == {q \in rows : IF order = "desc" THEN Created(q.id) > Created(r.id) ELSE Created(q.id) < Created(r.id)}
        page == {r \in rows : Cardinality(before(r)) >= offset /\ Cardinality(before(r)) < offset + limit}
    IN  [limit |-> limit, offset |-> offset, error |-> limit < 0 \/ offset < 0, rows |-> IF limit < 0 \/ offset < 0 THEN {} ELSE page]

\* A list handler's outcome: as HTTP, with the statements it executed.
Listed(d, status, ret, statements) ==
    [db |-> d, status |-> status, ret |-> ret, statements |-> statements]

ProjectServices_get_all_projects(d, user_id, order, limit, offset) ==
    Execute({p \in d.projects : p.user_id = user_id}, order, limit, offset)

TaskServices_get_tasks_by_project_id(d, project_id, user_id, order, limit, offset) ==
    Execute({k \in d.tasks : k.project_id = project_id /\ (k.user_id = user_id \/ k.assigned_id = user_id)}, order, limit, offset)

\* GET /projects : order is Query("asc", min_length=3, max_length=3), limit
\* Query(20, ge=1, le=100), offset Query(0, ge=0); the admin branch runs
\* its statement and falls through to the caller's own.
Route_get_all_projects(d, user, user_id, order, limit, offset) ==
    IF Len(order) # 3 \/ limit < 1 \/ limit > 100 \/ offset < 0 THEN Listed(d, 422, {}, {})
    ELSE IF is_superuser[user] /\ role[user] = "admin" /\ user_id = NULL THEN Listed(d, 500, {}, {})
    ELSE LET first == IF is_superuser[user] /\ role[user] = "admin" THEN {ProjectServices_get_all_projects(d, user_id, order, limit, offset)} ELSE {}
             own == ProjectServices_get_all_projects(d, user, order, limit, offset)
         IN  Listed(d, 200, own.rows, first \cup {own})

\* GET /tasks/project/{project_id} : order, limit and offset are Query(...),
\* required and unbounded; no task found is a 404 raised inside the try.
Route_get_all_tasks_by_project_id(d, user, project_id, order, limit, offset) ==
    LET r == TaskServices_get_tasks_by_project_id(d, project_id, user, order, limit, offset)
    IN  IF r.error \/ r.rows = {} THEN Listed(d, 500, {}, {r})
        ELSE Listed(d, 200, r.rows, {r})

-----------------------------------------------------------------------------
(* One action per route: the request is served and the store is left as    *)
(* the handler left it.  A create is bounded by the rows its table may     *)
(* ever hold.                                                              *)

create_team(user, title, ok) ==
    /\ seq.team <= MaxTeams
    /\ Store(Route_create_team(DB, user, title, ok).db)

get_all_teams(user, owner_id) ==
    Store(Route_get_all_teams(DB, user, owner_id).db)

get_user_team_by_id(user, team_id) ==
    Store(Route_get_user_team_by_id(DB, user, team_id).db)

update_team(user, team_id, title, ok) ==
    Store(Route_update_team(DB, user, team_id, title, ok).db)

delete_team(user, team_id, ok) ==
    Store(Route_delete_team(DB, user, team_id, ok).db)

create_team_member(user, team_id, user_id, ok) ==
    /\ seq.member <= MaxMembers
    /\ Store(Route_create_team_member(DB, user, team_id, user_id, ok).db)

get_all_team_members(user, team_id, owner_id) ==
    Store(Route_get_all_team_members(DB, user, team_id, owner_id).db)

delete_team_member_by_id(user, team_member_id, team_id, pick, ok) ==
    Store(Route_delete_team_member_by_id(DB, user, team_member_id, team_id, pick, ok).db)

create_project(user, title, team_id, ok1, ok2) ==
    /\ seq.project <= MaxProjects
    /\ Store(Request_create_project(DB, user, [title |-> title, description |-> NULL, team_id |-> team_id], ok1, ok2).db)

get_project_by_id(user, project_id) ==
    Store(Route_get_project_by_id(DB, user, project_id).db)

get_project_if_member(user, project_id) ==
    Store(Route_get_project_if_member(DB, user, project_id).db)

get_project_by_project_id_and_user_id(user, project_id, user_id) ==
    Store(Route_get_project_by_project_id_and_user_id(DB, user, project_id, user_id).db)

update_project(user, project_id, title, team_id, ok1, ok2) ==
    Store(Request_update_project(DB, user, project_id, [title |-> title, description |-> NULL, team_id |-> team_id], ok1, ok2).db)

delete_project(user, project_id, ok) ==
    Store(Route_delete_project(DB, user, project_id, ok).db)

create_task(user, title, project_id, assigned_id, ok1, ok2) ==
    /\ seq.task <= MaxTasks
    /\ Store(Route_create_task(DB, user, title, project_id, assigned_id, ok1, ok2).db)

get_task_by_id(user, task_id) ==
    Store(Route_get_task_by_id(DB, user, task_id).db)

update_task(user, task_id, body, ok1, ok2) ==
    Store(Request_update_task(DB, user, task_id, body, ok1, ok2).db)

delete_task(user, task_id, ok) ==
    Store(Route_delete_task(DB, user, task_id, ok).db)

create_comment(user, task_id, comment) ==
    Store(Route_create_comment(DB, user, task_id, comment).db)

get_comment_by_id(user, comment_id) ==
    Store(Route_get_comment_by_id(DB, user, comment_id).db)

update_comment(user, comment_id, comment, ok1, ok2) ==
    Store(Route_update_comment(DB, user, comment_id, comment, ok1, ok2).db)

delete_comment(user, comment_id, ok) ==
    Store(Route_delete_comment(DB, user, comment_id, ok).db)

create_activity(user, project_id, ok) ==
    Store(Route_create_activity(DB, user, project_id, ok).db)

get_task_activities(user, task_id) ==
    Store(Route_get_task_activities(DB, user, task_id).db)

delete_activity_by_id(user, activity_id, project_id) ==
    Store(Route_delete_activity_by_id(DB, user, activity_id, project_id).db)

get_all_users(user) ==
    Store(Route_get_all_users(DB, user).db)

get_all_admins(user) ==
    Store(Route_get_all_admins(DB, user).db)

get_all_members(user) ==
    Store(Route_get_all_members(DB, user).db)

filter_activities(user, project_id, activity_type, entity) ==
    Store(Route_filter_activities(DB, user, project_id, activity_type, entity).db)

get_all_projects(user, user_id, order, limit, offset) ==
    Store(Route_get_all_projects(DB, user, user_id, order, limit, offset).db)

get_all_tasks_by_project_id(user, project_id, order, limit, offset) ==
    Store(Route_get_all_tasks_by_project_id(DB, user, project_id, order, limit, offset).db)

-----------------------------------------------------------------------------
(* The inputs of the requests.                                             *)

\* The ids a request may name: those of the rows, and one of no row.
TeamArgs == {t.id : t \in teams} \cup {Missing}
ProjectArgs == {p.id : p \in projects} \cup {Missing}
TaskArgs == {k.id : k \in tasks} \cup {Missing}
CommentArgs == {c.id : c \in comments} \cup {Missing}
LogArgs == {a.id : a \in logs} \cup {Missing}
NoMember == TeamMember(NULL, NULL, NULL)
\* The paging a list request may ask for.
Orders == {"asc", "desc"}
Limits == {0, 1}
Offsets == {-1, 0}
\* The owners an administrator may list the projects of.
OwnerArgs == {NULL, "u1"}
\* The users who open teams.
TeamOwners == {"u1"}
\* The users a task is assigned to.
Assignees == {"u2", "u3"}
\* The bodies of the task updates made: each carries a title, an assignee
\* and the NOT NULL columns.
TaskPatches == {TaskBody(t, a, "today") : t \in Titles, a \in Assignees}

-----------------------------------------------------------------------------
(* Teams, members and projects, from the empty store.                      *)

\* The requests in flight: each of two handlers between its awaits.  A
\* request served as one piece leaves them alone.
Procs == {"r1", "r2"}
Idle == [pc |-> "idle", op |-> NULL, user |-> NULL, title |-> NULL, team_id |-> NULL, user_id |-> NULL, row |-> NULL, status |-> 0]

Init ==
    /\ race = [p \in Procs |-> Idle]
    /\ teams = {}
    /\ members = {}
    /\ projects = {}
    /\ tasks = {}
    /\ comments = {}
    /\ logs = {}
    /\ seq = [team |-> 1, member |-> 1, project |-> 1, task |-> 1, log |-> 1]

Next ==
    \/ \E u \in TeamOwners, t \in Titles, ok \in BOOLEAN : create_team(u, t, ok)
    \/ \E u \in Users, o \in Users \cup {NULL} : get_all_teams(u, o)
    \/ \E u \in Users, id \in TeamArgs : get_user_team_by_id(u, id)
    \/ \E u \in Users, id \in TeamArgs, t \in Titles, ok \in BOOLEAN : update_team(u, id, t, ok)
    \/ \E u \in Users, id \in TeamArgs, ok \in BOOLEAN : delete_team(u, id, ok)
    \/ \E u \in Users, id \in TeamArgs, m \in Users, ok \in BOOLEAN : create_team_member(u, id, m, ok)
    \/ \E u \in Users, id \in TeamArgs, o \in Users \cup {NULL} : get_all_team_members(u, id, o)
    \/ \E u \in Users, id \in TeamArgs, m \in Users, pick \in members \cup {NoMember}, ok \in BOOLEAN : delete_team_member_by_id(u, m, id, pick, ok)
    \/ \E u \in Users, t \in Titles, id \in TeamArgs \cup {NULL, Absent}, ok1 \in BOOLEAN, ok2 \in BOOLEAN : create_project(u, t, id, ok1, ok2)
    \/ \E u \in Users, id \in ProjectArgs : get_project_by_id(u, id)
    \/ \E u \in Users, id \in ProjectArgs : get_project_if_member(u, id)
    \/ \E u \in Users, id \in ProjectArgs, o \in Users : get_project_by_project_id_and_user_id(u, id, o)
    \/ \E u \in Users, id \in ProjectArgs, t \in Titles, tm \in TeamArgs \cup {NULL, Absent}, ok1 \in BOOLEAN, ok2 \in BOOLEAN : update_project(u, id, t, tm, ok1, ok2)
    \/ \E u \in Users, id \in ProjectArgs, ok \in BOOLEAN : delete_project(u, id, ok)
    \/ \E u \in Users, a \in LogArgs, id \in ProjectArgs : delete_activity_by_id(u, a, id)

Spec == Init /\ [][Next]_vars

-----------------------------------------------------------------------------
(* Tasks, comments and activities, from a store that holds a team with a   *)
(* member, a project of the team and a task of the project.  No request    *)
(* stores a task_comments row (TaskCommentService_create_comment), so the  *)
(* comment the comment routes work on is drawn here.                       *)

InitTasks ==
    /\ race = [p \in Procs |-> Idle]
    /\ teams = {Team("t1", "x", "u1")}
    /\ members = {TeamMember("m1", "t1", "u2")}
    /\ projects = {Project("p1", "x", "u1", "t1")}
    /\ tasks = {Task("k1", "x", "u1", "u2", "p1")}
    /\ comments \in {{}, {TaskComment("c1", "k1", "u2", "x")}}
    /\ logs = {}
    /\ seq = [team |-> 2, member |-> 2, project |-> 2, task |-> 2, log |-> 1]

NextTasks ==
    \/ \E u \in Users, t \in Titles, id \in ProjectArgs, a \in Assignees, ok1 \in BOOLEAN, ok2 \in BOOLEAN : create_task(u, t, id, a, ok1, ok2)
    \/ \E u \in Users, id \in TaskArgs : get_task_by_id(u, id)
    \/ \E u \in Users, id \in TaskArgs, body \in TaskPatches, ok1 \in BOOLEAN, ok2 \in BOOLEAN : update_task(u, id, body, ok1, ok2)
    \/ \E u \in Users, id \in TaskArgs, ok \in BOOLEAN : delete_task(u, id, ok)
    \/ \E u \in Users, id \in TaskArgs, c \in Titles : create_comment(u, id, c)
    \/ \E u \in Users, id \in CommentArgs : get_comment_by_id(u, id)
    \/ \E u \in Users, id \in CommentArgs, c \in Titles, ok1 \in BOOLEAN, ok2 \in BOOLEAN : update_comment(u, id, c, ok1, ok2)
    \/ \E u \in Users, id \in CommentArgs, ok \in BOOLEAN : delete_comment(u, id, ok)
    \/ \E u \in Users, id \in ProjectArgs, ok \in BOOLEAN : create_activity(u, id, ok)
    \/ \E u \in Users, id \in TaskArgs : get_task_activities(u, id)
    \/ \E u \in Users, a \in LogArgs, id \in ProjectArgs : delete_activity_by_id(u, a, id)
    \/ \E u \in Users, id \in ProjectArgs, e \in {NULL, "task"} : filter_activities(u, id, "update", e)
    \/ \E u \in Users : get_all_users(u)
    \/ \E u \in Users : get_all_admins(u)
    \/ \E u \in Users : get_all_members(u)
    \/ \E u \in Users, id \in OwnerArgs, o \in Orders, l \in Limits, f \in Offsets : get_all_projects(u, id, o, l, f)
    \/ \E u \in Users, id \in ProjectArgs, o \in Orders, l \in Limits, f \in Offsets : get_all_tasks_by_project_id(u, id, o, l, f)

SpecTasks == InitTasks /\ [][NextTasks]_vars

-----------------------------------------------------------------------------
(* Projects of two owners: from a store in which u1 and u2 each own a      *)
(* team, the project routes.                                               *)

InitOwners ==
    /\ race = [p \in Procs |-> Idle]
    /\ teams = {Team("t1", "x", "u1"), Team("t2", "x", "u2")}
    /\ members = {}
    /\ projects = {}
    /\ tasks = {}
    /\ comments = {}
    /\ logs = {}
    /\ seq = [team |-> 3, member |-> 1, project |-> 1, task |-> 1, log |-> 1]

NextOwners ==
    \/ \E u \in Users, t \in Titles, id \in TeamArgs \cup {NULL, Absent}, ok1 \in BOOLEAN, ok2 \in BOOLEAN : create_project(u, t, id, ok1, ok2)
    \/ \E u \in Users, id \in ProjectArgs : get_project_by_id(u, id)
    \/ \E u \in Users, id \in ProjectArgs, t \in Titles, tm \in TeamArgs \cup {NULL, Absent}, ok1 \in BOOLEAN, ok2 \in BOOLEAN : update_project(u, id, t, tm, ok1, ok2)
    \/ \E u \in Users, id \in ProjectArgs, ok \in BOOLEAN : delete_project(u, id, ok)

SpecOwners == InitOwners /\ [][NextOwners]_vars

-----------------------------------------------------------------------------
(* Two requests in flight: create_project and create_team_member served    *)
(* await by await, from a store in which u1 owns team t1.  Between two     *)
(* awaits of one handler the other handler may run; the store serves each  *)
(* statement and each commit as one piece.                                 *)

Pending(p, pc) == race[p].pc = pc
Answer(p, status) == race' = [race EXCEPT ![p].pc = "done", ![p].status = status]
Rows == UNCHANGED <<teams, members, projects, tasks, comments, logs, seq>>

\* The request arrives: create_project with user and title, or
\* create_team_member with user_id, both naming team_id.
race_begin(p, op, user, title, team_id, user_id) ==
    /\ Pending(p, "idle")
    /\ race' = [race EXCEPT ![p] = [pc |-> "team", op |-> op, user |-> user, title |-> IF op = "create_project" THEN title ELSE NULL, team_id |-> team_id, user_id |-> IF op = "create_team_member" THEN user_id ELSE NULL, row |-> NULL, status |-> 0]]
    /\ Rows

\* "team = await ...get_user_team_by_id(...)": no team is the
\* HTTPException, answered 500.
race_get_user_team_by_id(p) ==
    /\ Pending(p, "team")
    /\ IF TeamServices_get_user_team_by_id(DB, race[p].user, race[p].team_id) = {}
       THEN Answer(p, 500)
       ELSE race' = [race EXCEPT ![p].pc = "commit"]
    /\ Rows

\* "session.add(...); await session.commit()": the insert is refused when
\* a constraint of the table fails (None, answered 500).
race_commit(p) ==
    /\ Pending(p, "commit")
    /\ IF race[p].op = "create_project"
       THEN LET row == Project(ProjectId(seq.project), race[p].title, race[p].user, race[p].team_id)
            IN  IF ProjectConstraints(DB, row)
                THEN /\ projects' = projects \cup {row}
                     /\ seq' = [seq EXCEPT !.project = @ + 1]
                     /\ race' = [race EXCEPT ![p].pc = "activity", ![p].row = row.id]
                     /\ UNCHANGED members
                ELSE Answer(p, 500) /\ UNCHANGED <<projects, members, seq>>
       ELSE LET row == TeamMember(MemberId(seq.member), race[p].team_id, race[p].user_id)
            IN  /\ members' = members \cup {row}
                /\ seq' = [seq EXCEPT !.member = @ + 1]
                /\ race' = [race EXCEPT ![p].pc = "activity", ![p].row = row.id]
                /\ UNCHANGED projects
    /\ UNCHANGED <<teams, tasks, comments, logs>>

\* The activity rows and the answer: create_project answers 500 when the
\* service's activity row is not written, create_team_member 201 anyhow.
race_create_activity(p, ok1, ok2) ==
    /\ Pending(p, "activity")
    /\ IF race[p].op = "create_project"
       THEN LET row == One({r \in projects : r.id = race[p].row})
                log == ActivityServices_create_activity(DB, ProjectActivity(row, "create"), ok1)
                again == ActivityServices_create_activity(log.db, ProjectActivity(row, "create"), ok2)
            IN  IF log.ret = {} THEN Answer(p, 500) /\ UNCHANGED <<logs, seq>>
                ELSE Answer(p, 201) /\ logs' = again.db.logs /\ seq' = again.db.seq
       ELSE LET m == One({r \in members : r.id = race[p].row})
                log == ActivityServices_create_activity(DB, ActivityData(m.user_id, NULL, NULL, m.team_id, NULL, "create", "team_member", m.id), ok1)
            IN  Answer(p, 201) /\ logs' = log.db.logs /\ seq' = log.db.seq
    /\ UNCHANGED <<teams, members, projects, tasks, comments>>

InitRace ==
    /\ race = [p \in Procs |-> Idle]
    /\ teams = {Team("t1", "x", "u1")}
    /\ members = {}
    /\ projects = {}
    /\ tasks = {}
    /\ comments = {}
    /\ logs = {}
    /\ seq = [team |-> 2, member |-> 1, project |-> 1, task |-> 1, log |-> 1]

NextRace ==
    \/ \E p \in Procs, op \in {"create_project", "create_team_member"}, u \in {"u1", "u3"}, t \in Titles, id \in TeamArgs, m \in Assignees : race_begin(p, op, u, t, id, m)
    \/ \E p \in Procs : race_get_user_team_by_id(p)
    \/ \E p \in Procs : race_commit(p)
    \/ \E p \in Procs, ok1 \in BOOLEAN, ok2 \in BOOLEAN : race_create_activity(p, ok1, ok2)

SpecRace == InitRace /\ [][NextRace]_vars

-----------------------------------------------------------------------------
(* Every request that can be made in a state, with the response the        *)
(* handler gives to it.  kind and entity say what the route is for; id is  *)
(* the row the request names (for a create, the row it made); oks are the  *)
(* fates drawn for the activity writes.                                    *)

Call(op, kind, entity, user, id, oks, resp) ==
    [op |-> op, kind |-> kind, entity |-> entity, user |-> user, id |-> id,
     oks |-> oks, resp |-> resp]

ArgsOf(rows) == {x.id : x \in rows} \cup {Missing}
NewId(resp) == IF resp.ret = {} THEN NULL ELSE One(resp.ret).id

TeamCalls(d) ==
    {LET r == Route_create_team(d, u, t, ok)
     IN  Call("create_team", "create", "team", u, NewId(r), <<ok>>, r) :
         u \in Users, t \in Titles, ok \in BOOLEAN}
    \cup {Call("get_all_teams", "read", "team", u, o, <<>>, Route_get_all_teams(d, u, o)) :
         u \in Users, o \in Users \cup {NULL}}
    \cup {Call("get_user_team_by_id", "read", "team", u, id, <<>>, Route_get_user_team_by_id(d, u, id)) :
         u \in Users, id \in ArgsOf(d.teams)}
    \cup {Call("update_team", "update", "team", u, id, <<ok>>, Route_update_team(d, u, id, t, ok)) :
         u \in Users, id \in ArgsOf(d.teams), t \in Titles, ok \in BOOLEAN}
    \cup {Call("delete_team", "delete", "team", u, id, <<ok>>, Route_delete_team(d, u, id, ok)) :
         u \in Users, id \in ArgsOf(d.teams), ok \in BOOLEAN}

MemberCalls(d) ==
    {LET r == Route_create_team_member(d, u, id, m, ok)
     IN  Call("create_team_member", "create", "team_member", u, NewId(r), <<ok>>, r) :
         u \in Users, id \in ArgsOf(d.teams), m \in Users, ok \in BOOLEAN}
    \cup {Call("get_all_team_members", "read", "team_member", u, id, <<>>, Route_get_all_team_members(d, u, id, o)) :
         u \in Users, id \in ArgsOf(d.teams), o \in Users \cup {NULL}}
    \cup {Call("delete_team_member_by_id", "delete", "team_member", u, pick.id, <<ok>>, Route_delete_team_member_by_id(d, u, pick.user_id, pick.team_id, pick, ok)) :
         u \in Users, pick \in d.members, ok \in BOOLEAN}

ProjectCalls(d) ==
    {LET r == Route_create_project(d, u, t, id, ok1, ok2)
     IN  Call("create_project", "create", "project", u, NewId(r), <<ok1, ok2>>, r) :
         u \in Users, t \in Titles, id \in ArgsOf(d.teams) \cup {NULL}, ok1 \in BOOLEAN, ok2 \in BOOLEAN}
    \cup {Call("get_project_by_id", "read", "project", u, id, <<>>, Route_get_project_by_id(d, u, id)) :
         u \in Users, id \in ArgsOf(d.projects)}
    \cup {Call("get_project_if_member", "read", "project", u, id, <<>>, Route_get_project_if_member(d, u, id)) :
         u \in Users, id \in ArgsOf(d.projects)}
    \cup {Call("get_project_by_project_id_and_user_id", "read", "project", u, id, <<>>, Route_get_project_by_project_id_and_user_id(d, u, id, o)) :
         u \in Users, id \in ArgsOf(d.projects), o \in Users}
    \cup {Call("update_project", "update", "project", u, id, <<ok1, ok2>>, Route_update_project(d, u, id, t, tm, ok1, ok2)) :
         u \in Users, id \in ArgsOf(d.projects), t \in Titles, tm \in ArgsOf(d.teams) \cup {NULL}, ok1 \in BOOLEAN, ok2 \in BOOLEAN}
    \cup {Call("delete_project", "delete", "project", u, id, <<ok>>, Route_delete_project(d, u, id, ok)) :
         u \in Users, id \in ArgsOf(d.projects), ok \in BOOLEAN}

TaskCalls(d) ==
    {LET r == Route_create_task(d, u, t, id, a, ok1, ok2)
     IN  Call("create_task", "create", "task", u, NewId(r), <<ok1, ok2>>, r) :
         u \in Users, t \in Titles, id \in ArgsOf(d.projects), a \in Assignees, ok1 \in BOOLEAN, ok2 \in BOOLEAN}
    \cup {Call("get_task_by_id", "read", "task", u, id, <<>>, Route_get_task_by_id(d, u, id)) :
         u \in Users, id \in ArgsOf(d.tasks)}
    \cup {Call("update_task", "update", "task", u, id, <<ok1, ok2>>, Route_update_task(d, u, id, t, a, ok1, ok2)) :
         u \in Users, id \in ArgsOf(d.tasks), t \in Titles, a \in Assignees, ok1 \in BOOLEAN, ok2 \in BOOLEAN}
    \cup {Call("delete_task", "delete", "task", u, id, <<ok>>, Route_delete_task(d, u, id, ok)) :
         u \in Users, id \in ArgsOf(d.tasks), ok \in BOOLEAN}

CommentCalls(d) ==
    {Call("create_comment", "create", "comment", u, NULL, <<>>, Route_create_comment(d, u, id, c)) :
         u \in Users, id \in ArgsOf(d.tasks), c \in Titles}
    \cup {Call("get_comment_by_id", "read", "comment", u, id, <<>>, Route_get_comment_by_id(d, u, id)) :
         u \in Users, id \in ArgsOf(d.comments)}
    \cup {Call("update_comment", "update", "comment", u, id, <<ok1, ok2>>, Route_update_comment(d, u, id, c, ok1, ok2)) :
         u \in Users, id \in ArgsOf(d.comments), c \in Titles, ok1 \in BOOLEAN, ok2 \in BOOLEAN}
    \cup {Call("delete_comment", "delete", "comment", u, id, <<ok>>, Route_delete_comment(d, u, id, ok)) :
         u \in Users, id \in ArgsOf(d.comments), ok \in BOOLEAN}

ActivityCalls(d) ==
    {LET r == Route_create_activity(d, u, id, ok)
     IN  Call("create_activity", "create", "activity", u, NewId(r), <<ok>>, r) :
         u \in Users, id \in ArgsOf(d.projects), ok \in BOOLEAN}
    \cup {Call("get_task_activities", "read", "activity", u, id, <<>>, Route_get_task_activities(d, u, id)) :
         u \in Users, id \in ArgsOf(d.tasks)}
    \cup {Call("delete_activity_by_id", "delete", "activity", u, a, <<>>, Route_delete_activity_by_id(d, u, a, id)) :
         u \in Users, a \in ArgsOf(d.logs), id \in ArgsOf(d.projects)}

Calls(d) ==
    TeamCalls(d) \cup MemberCalls(d) \cup ProjectCalls(d) \cup TaskCalls(d)
        \cup CommentCalls(d) \cup ActivityCalls(d)

\* The response reports success.
Success(resp) == resp.status \in {200, 201, 204}
\* Every activity write of the request finds the store working, and the
\* table has room for two more rows.
AuditWorks(d, c) ==
    /\ \A i \in DOMAIN c.oks : c.oks[i]
    /\ d.seq.log + 1 <= MaxLogs
\* The principal holds both flags, or exactly one of them.
BothFlags(u) == is_superuser[u] /\ role[u] = "admin"
OneFlag(u) == is_superuser[u] # (role[u] = "admin")

-----------------------------------------------------------------------------
(* The claims.                                                             *)

\* C1: after a successful create, update or delete made through a Project,
\* Task, Comment, Team or TeamMember route, with the activity store
\* working, the ActivityLog holds exactly one new row, and that row's
\* entity and entity_id name the mutated row.
C1_ExactlyOneActivityRow ==
    \A c \in Calls(DB) :
        (/\ c.kind \in {"create", "update", "delete"}
         /\ c.entity \in {"project", "task", "comment", "team", "team_member"}
         /\ Success(c.resp)
         /\ AuditWorks(DB, c))
        => \E row \in c.resp.db.logs :
               /\ c.resp.db.logs \ logs = {row}
               /\ row.entity = c.entity
               /\ row.entity_id = c.id

\* Some read route gives the project to the user.
CanRead(u, p) ==
    \/ Route_get_project_by_id(DB, u, p.id).ret = {p}
    \/ Route_get_project_if_member(DB, u, p.id).ret = {p}
    \/ \E o \in Users : Route_get_project_by_project_id_and_user_id(DB, u, p.id, o).ret = {p}
\* The update route, the activity store working, changes the project.
CanUpdate(u, p) ==
    \E t \in Titles \ {p.title} :
        LET r == Route_update_project(DB, u, p.id, t, p.team_id, TRUE, TRUE)
        IN  Success(r) /\ r.ret = {[p EXCEPT !.title = t]}
\* The delete route, the activity store working, removes the project.
CanDelete(u, p) ==
    LET r == Route_delete_project(DB, u, p.id, TRUE)
    IN  Success(r) /\ p \notin r.db.projects
\* The request is answered 404 and the store is as before.
NotFound(resp) == resp.status = 404 /\ resp.db = DB

\* C2: a project without a team can be read, updated and deleted by its
\* owner and by a principal with both flags (no activity row holding it,
\* two rows of room in the log); the same requests by any other principal
\* are answered NotFound and change nothing.
C2_NoTeamProject ==
    \A p \in projects : \A u \in Users :
        (p.team_id = NULL /\ NoLogOfProject(DB, p.id) /\ seq.log + 1 <= MaxLogs) =>
            IF u = p.user_id \/ BothFlags(u)
            THEN CanRead(u, p) /\ CanUpdate(u, p) /\ CanDelete(u, p)
            ELSE /\ NotFound(Route_get_project_by_id(DB, u, p.id))
                 /\ \A t \in Titles : NotFound(Route_update_project(DB, u, p.id, t, NULL, TRUE, TRUE))
                 /\ NotFound(Route_delete_project(DB, u, p.id, TRUE))

\* C4: a principal holding exactly one of is_superuser and role = admin is
\* served as an ordinary user: the per-owner project read gives it only its
\* own projects, and the team listing it asks for as an admin without
\* is_superuser is answered Forbidden.
C4_OverrideNeedsBothFlags ==
    \A u \in Users : OneFlag(u) =>
        /\ \A p \in projects : \A o \in Users :
               Route_get_project_by_project_id_and_user_id(DB, u, p.id, o).ret
                   \subseteq {q \in projects : q.user_id = u}
        /\ role[u] = "admin" =>
               \A o \in Users \cup {NULL} : Route_get_all_teams(DB, u, o).status = 403

\* C5: a user M added to team T by T's owner reads every project of T;
\* delete_team on T and the removal of another member of T, requested by M,
\* are refused and leave the store as it was.
C5_MemberReadsButCannotManage ==
    \A t \in teams : \A m \in members :
        (m.team_id = t.id /\ m.user_id # t.user_id) =>
            /\ \A p \in projects : p.team_id = t.id =>
                   Route_get_project_if_member(DB, m.user_id, p.id).ret = {p}
            /\ \A ok \in BOOLEAN :
                   LET r == Route_delete_team(DB, m.user_id, t.id, ok)
                   IN  ~Success(r) /\ r.db = DB
            /\ \A m2 \in members : \A ok \in BOOLEAN :
                   (m2.team_id = t.id /\ m2.user_id # m.user_id) =>
                       LET r == Route_delete_team_member_by_id(DB, m.user_id, m2.user_id, t.id, m2, ok)
                       IN  ~Success(r) /\ r.db = DB

\* C8: a create_team_member request by a principal who does not own the
\* team it names creates no TeamMember row.
C8_OnlyOwnerAddsMembers ==
    \A u \in Users : \A id \in TeamArgs : \A m \in Users : \A ok \in BOOLEAN :
        (\A t \in teams : ~(t.id = id /\ t.user_id = u)) =>
            LET r == Route_create_team_member(DB, u, id, m, ok)
            IN  r.db.members = members /\ ~Success(r)

\* A team has a member, and a user who does not own it has asked to add one.
C8_Witness ==
    \E t \in teams : \E u \in Users :
        /\ \E m \in members : m.team_id = t.id
        /\ u # t.user_id
        /\ seq.member <= MaxMembers
        /\ Route_create_team_member(DB, u, t.id, u, TRUE).status = 500

\* C10: when the entity write of a request is committed and an activity
\* write after it fails, the caller is still answered with success.
C10_AuditFailureKeepsSuccess ==
    \A c \in Calls(DB) :
        (/\ c.kind \in {"create", "update", "delete"}
         /\ c.resp.committed
         /\ \E i \in DOMAIN c.oks : ~c.oks[i]
         /\ \E i \in DOMAIN c.resp.audits : ~c.resp.audits[i])
        => Success(c.resp)

\* C3: when the requesting principal fails the check of a mutating
\* operation (the owner filter of update_project, delete_project,
\* update_team, delete_team, add_member_to_team and
\* remove_member_from_team, the creator-or-assignee filter of update_task,
\* the creator filter of delete_task, the author filter of update_comment
\* and delete_comment), the request leaves every table, the ActivityLog
\* included, as it was.
C3_DeniedMutationChangesNothing ==
    \A u \in Users :
        /\ \A p \in projects : u # p.user_id =>
               /\ \A t \in Titles, tm \in TeamArgs \cup {NULL}, ok1 \in BOOLEAN, ok2 \in BOOLEAN :
                      Route_update_project(DB, u, p.id, t, tm, ok1, ok2).db = DB
               /\ \A ok \in BOOLEAN : Route_delete_project(DB, u, p.id, ok).db = DB
        /\ \A k \in tasks :
               /\ u \notin {k.user_id, k.assigned_id} =>
                      \A t \in Titles, a \in Users \cup {NULL}, ok1 \in BOOLEAN, ok2 \in BOOLEAN :
                          Route_update_task(DB, u, k.id, t, a, ok1, ok2).db = DB
               /\ u # k.user_id =>
                      \A ok \in BOOLEAN : Route_delete_task(DB, u, k.id, ok).db = DB
        /\ \A c \in comments : u # c.user_id =>
               /\ \A t \in Titles, ok1 \in BOOLEAN, ok2 \in BOOLEAN :
                      Route_update_comment(DB, u, c.id, t, ok1, ok2).db = DB
               /\ \A ok \in BOOLEAN : Route_delete_comment(DB, u, c.id, ok).db = DB
        /\ \A t \in teams : u # t.user_id =>
               /\ \A n \in Titles, ok \in BOOLEAN : Route_update_team(DB, u, t.id, n, ok).db = DB
               /\ \A ok \in BOOLEAN : Route_delete_team(DB, u, t.id, ok).db = DB
               /\ \A m \in Users, ok \in BOOLEAN : Route_create_team_member(DB, u, t.id, m, ok).db = DB
               /\ \A m \in members, ok \in BOOLEAN :
                      m.team_id = t.id => Route_delete_team_member_by_id(DB, u, m.user_id, t.id, m, ok).db = DB

\* Requests have changed a task and written activity rows, a comment is
\* there, and a user who is neither creator nor assignee of the task is
\* refused its update.
C3_Witness ==
    /\ logs # {}
    /\ comments # {}
    /\ \E k \in tasks : \E u \in Users :
           /\ k.title = "y"
           /\ u \notin {k.user_id, k.assigned_id}
           /\ Route_update_task(DB, u, k.id, "x", k.assigned_id, TRUE, TRUE).status = 500

\* The task's creator and its assignee, no one else.
TaskPrincipal(u, k) == u = k.user_id \/ u = k.assigned_id

\* C6: get_task_by_id, update_task, delete_task and the task activity
\* listing behind require_task_access serve a principal exactly when it is
\* the task's creator or its assignee.  (The delete is asked with no
\* activity row holding the task or its comments and with the delete's own
\* activity write failing, so that no foreign key stands in its way.)
C6_TaskCreatorOrAssignee ==
    \A k \in tasks : \A u \in Users :
        /\ (TaskServices_get_task_by_id(DB, k.id, u) # {}) <=> TaskPrincipal(u, k)
        /\ (TaskServices_update_task(DB, k.id, u, [title |-> k.title, assigned_id |-> k.assigned_id], TRUE).ret # {})
               <=> TaskPrincipal(u, k)
        /\ (NoLogOfTask(DB, k.id) /\ \A c \in comments : c.task_id = k.id => NoLogOfComment(DB, c.id)) =>
               ((TaskServices_delete_task(DB, k.id, u, FALSE).ret # {}) <=> TaskPrincipal(u, k))
        /\ (require_task_access(DB, k.id, u) = "") <=> TaskPrincipal(u, k)

C11_AuditFailureIsReported ==
    \A c \in Calls(DB) :
        (/\ c.kind \in {"create", "update", "delete"}
         /\ c.resp.committed
         /\ \E i \in DOMAIN c.resp.audits : ~c.resp.audits[i])
        => ~Success(c.resp)

\* C12: create_project with a title the principal has not used and a null
\* team_id (the tables having room, the activity store working) succeeds,
\* and get_project_by_id of the created project by the same principal gives
\* a project with that title, that owner and no team.
C12_PersonalProjectRoundTrip ==
    \A u \in Users : \A t \in Titles :
        (/\ \A p \in projects : ~(p.user_id = u /\ p.title = t)
         /\ seq.project <= MaxProjects
         /\ seq.log + 1 <= MaxLogs) =>
            LET r == Route_create_project(DB, u, t, NULL, TRUE, TRUE)
            IN  /\ Success(r)
                /\ \E p \in r.ret :
                       /\ p.title = t /\ p.user_id = u /\ p.team_id = NULL
                       /\ Route_get_project_by_id(r.db, u, p.id).ret = {p}

\* The bodies of a create-project request that carry no team_id.
BodiesWithoutTeam ==
    [title : Titles, description : {NULL, "d"}, team_id : {Absent}]

\* C13: a create-project request whose body has no team_id is answered
\* 422, and leaves the projects and the ActivityLog (every table) as they
\* were.
C13_MissingTeamIdIs422 ==
    \A u \in Users : \A body \in BodiesWithoutTeam : \A ok1 \in BOOLEAN, ok2 \in BOOLEAN :
        LET r == Request_create_project(DB, u, body, ok1, ok2)
        IN  r.status = 422 /\ r.db = DB

\* A principal owns a team in which the request would create a project,
\* and the same request without team_id is answered 422.
C13_Witness ==
    \E t \in teams :
        /\ seq.project <= MaxProjects
        /\ Request_create_project(DB, t.user_id, [title |-> "x", description |-> NULL, team_id |-> t.id], TRUE, TRUE).status = 201
        /\ Request_create_project(DB, t.user_id, [title |-> "x", description |-> NULL, team_id |-> Absent], TRUE, TRUE).status = 422

\* C14: a create_project with a title the principal already uses, in a team
\* the principal owns, is answered 409 Conflict (not 404, not 500), and
\* the projects are left as they were.
C14_DuplicateTitleIsConflict ==
    \A p \in projects : \A t \in teams : \A ok1 \in BOOLEAN, ok2 \in BOOLEAN :
        t.user_id = p.user_id =>
            LET r == Route_create_project(DB, p.user_id, p.title, t.id, ok1, ok2)
            IN  r.status = 409 /\ r.db.projects = projects

\* C15: team_members holds at most one row for each pair of a team and a
\* user.
C15_OneMembershipPerTeamAndUser ==
    \A m1 \in members : \A m2 \in members :
        (m1.team_id = m2.team_id /\ m1.user_id = m2.user_id) => m1 = m2

\* C16: every project that has a team has one owned by the project's own
\* owner.
C16_TeamOfOwnOwner ==
    \A p \in projects :
        p.team_id # NULL => \E t \in teams : t.id = p.team_id /\ t.user_id = p.user_id

\* C17: after a delete_team request that is answered with success, the
\* team, its TeamMember rows and its projects are gone and no ActivityLog
\* row has the team in team_id; and in every state the team_id of an
\* ActivityLog row names a team that exists.
C17_DeleteTeamLeavesNoDependents ==
    /\ \A a \in logs : a.team_id # NULL => \E t \in teams : t.id = a.team_id
    /\ \A t \in teams : \A u \in Users : \A ok \in BOOLEAN :
           LET r == Route_delete_team(DB, u, t.id, ok)
           IN  Success(r) =>
                   /\ \A t2 \in r.db.teams : t2.id # t.id
                   /\ \A m \in r.db.members : m.team_id # t.id
                   /\ \A p \in r.db.projects : p.team_id # t.id
                   /\ \A a \in r.db.logs : a.team_id # t.id

\* A team has a member and a project, and its owner's delete_team is
\* answered with success.
C17_Witness ==
    \E t \in teams :
        /\ \E m \in members : m.team_id = t.id
        /\ \E p \in projects : p.team_id = t.id
        /\ Success(Route_delete_team(DB, t.user_id, t.id, TRUE))

\* No ActivityLog row references the task or a comment of it.
TaskUnlogged(k) ==
    NoLogOfTask(DB, k.id) /\ \A c \in comments : c.task_id = k.id => NoLogOfComment(DB, c.id)

\* C18: every task's project exists and every comment's task exists; a
\* delete_project by the project's owner removes the project together with
\* its tasks, and a delete_task by the task's creator removes the task
\* together with its comments (no ActivityLog row referencing the rows to
\* go, whatever becomes of the delete's own activity write).
C18_DeletesCascade ==
    /\ \A k \in tasks : \E p \in projects : p.id = k.project_id
    /\ \A c \in comments : \E k \in tasks : k.id = c.task_id
    /\ \A p \in projects :
           (NoLogOfProject(DB, p.id) /\ \A k \in tasks : k.project_id = p.id => TaskUnlogged(k)) =>
               \E ok \in BOOLEAN :
                   LET r == Route_delete_project(DB, p.user_id, p.id, ok)
                   IN  /\ p \notin r.db.projects
                       /\ \A k \in r.db.tasks : k.project_id # p.id
    /\ \A k \in tasks :
           TaskUnlogged(k) =>
               \E ok \in BOOLEAN :
                   LET r == Route_delete_task(DB, k.user_id, k.id, ok)
                   IN  /\ k \notin r.db.tasks
                       /\ \A c \in r.db.comments : c.task_id # k.id

\* The complete bodies of an update-project request.
UpdateBodies ==
    [title : Titles, description : {NULL}, team_id : TeamArgs \cup {NULL}]

\* C19: an update or a delete that names a project id which does not
\* exist, or a project the principal does not own, is answered 404 and
\* leaves every row as it was.
C19_UnknownProjectIs404 ==
    \A u \in Users : \A id \in ProjectArgs :
        (\A p \in projects : ~(p.id = id /\ p.user_id = u)) =>
            /\ \A body \in UpdateBodies : \A ok1 \in BOOLEAN, ok2 \in BOOLEAN :
                   LET r == Request_update_project(DB, u, id, body, ok1, ok2)
                   IN  r.status = 404 /\ r.db = DB
            /\ \A ok \in BOOLEAN :
                   LET r == Route_delete_project(DB, u, id, ok)
                   IN  r.status = 404 /\ r.db = DB

\* C20: a delete_project of an existing project by its owner (no task and
\* no ActivityLog row referencing the project) removes the project and is
\* answered 204, for some outcome of the activity write.
C20_OwnerDeleteIs204 ==
    \A p \in projects :
        (NoLogOfProject(DB, p.id) /\ \A k \in tasks : k.project_id # p.id) =>
            \E ok \in BOOLEAN :
                LET r == Route_delete_project(DB, p.user_id, p.id, ok)
                IN  p \notin r.db.projects /\ r.status = 204

\* The principal has access to the project: its owner, the owner or a
\* member of its team, or a principal with both admin flags.
ProjectAccess(u, p) ==
    \/ p.user_id = u
    \/ BothFlags(u)
    \/ \E t \in teams : t.id = p.team_id /\ t.user_id = u
    \/ \E m \in members : m.team_id = p.team_id /\ m.user_id = u

\* C21: a create_task request stores a task only if its project_id names a
\* project the principal has access to and its assigned_id names a user.
C21_CreateTaskNeedsAccess ==
    \A u \in Users : \A t \in Titles : \A id \in ProjectArgs : \A a \in Users \cup {Missing} :
        \A ok1 \in BOOLEAN, ok2 \in BOOLEAN :
            LET r == Route_create_task(DB, u, t, id, a, ok1, ok2)
            IN  r.db.tasks # tasks =>
                    /\ \E p \in projects : p.id = id /\ ProjectAccess(u, p)
                    /\ a \in Users

\* C22: no list request makes the store execute a statement with a limit
\* below 1 or an offset below 0: such a request is rejected, or its paging
\* is clamped, before any statement runs.
C22_ListPagingIsChecked ==
    \A u \in Users : \A o \in Orders : \A l \in Limits : \A f \in Offsets :
        /\ \A id \in OwnerArgs : \A s \in Route_get_all_projects(DB, u, id, o, l, f).statements : s.limit >= 1 /\ s.offset >= 0
        /\ \A id \in ProjectArgs : \A s \in Route_get_all_tasks_by_project_id(DB, u, id, o, l, f).statements : s.limit >= 1 /\ s.offset >= 0

TaskData ==
    [title : Titles \cup {Absent}, assigned_id : {"u3", Absent}, due_date : {Absent},
     project_id : {Missing, Absent}, user_id : {"u3", Absent}]

\* C24: whatever keys the patch holds, project_id and user_id among them,
\* update_task leaves the id, the project_id and the user_id of every task
\* as they were, and adds or removes no task: only the other columns of the
\* task it updates can differ.
C24_UpdateKeepsProjectAndCreator ==
    \A u \in Users : \A id \in TaskArgs : \A data \in TaskData : \A ok \in BOOLEAN :
        LET r == TaskServices_update_task(DB, id, u, data, ok)
        IN  /\ {<<k.id, k.project_id, k.user_id>> : k \in r.db.tasks} = {<<k.id, k.project_id, k.user_id>> : k \in tasks}
            /\ \A k \in r.db.tasks : k.id # id => k \in tasks

\* a task is updated, by its assignee, with a patch that names another
\* project and another creator, and its title changes
C24_Witness ==
    \E k \in tasks : \E data \in TaskData :
        /\ data.project_id \notin {Absent, k.project_id}
        /\ data.user_id \notin {Absent, k.user_id}
        /\ k.assigned_id # k.user_id
        /\ LET r == TaskServices_update_task(DB, k.id, k.assigned_id, data, TRUE)
           IN  r.ret # {} /\ One(r.ret).title # k.title

\* The bodies of a partial task update: the NOT NULL columns, and title and
\* assigned_id each supplied or not.
PartialTaskBodies == {TaskBody(t, a, "today") : t \in Titles \cup {Absent}, a \in Assignees \cup {Absent}}

PartialProjectBodies ==
    [title : Titles \cup {Absent}, description : {NULL}, team_id : TeamArgs \cup {NULL, Absent}]

\* C25: an update is a partial patch: a column whose key the request body
\* does not carry has, after update_task or update_project, the value it
\* had before; it is not overwritten with null.
C25_UnsuppliedFieldsKeepTheirValue ==
    \A u \in Users : \A ok1 \in BOOLEAN, ok2 \in BOOLEAN :
        /\ \A id \in TaskArgs : \A body \in PartialTaskBodies :
               LET r == Request_update_task(DB, u, id, body, ok1, ok2)
               IN  \A k \in tasks : \A n \in r.db.tasks : n.id = k.id =>
                       /\ body.title = Absent => n.title = k.title
                       /\ body.assigned_id = Absent => n.assigned_id = k.assigned_id
        /\ \A id \in ProjectArgs : \A body \in PartialProjectBodies :
               LET r == Request_update_project(DB, u, id, body, ok1, ok2)
               IN  \A p \in projects : \A n \in r.db.projects : n.id = p.id =>
                       /\ body.title = Absent => n.title = p.title
                       /\ body.team_id = Absent => n.team_id = p.team_id

\* The row an activity row of a task or a comment is about is in its table.
Applied(a) ==
    \/ a.entity = "task" /\ \E k \in tasks : k.id = a.entity_id
    \/ a.entity = "comment" /\ \E c \in comments : c.id = a.entity_id

\* C26: the activity log never holds a row for a mutation that is not yet
\* applied: a create or update row of a task or comment is written after
\* the row it is about is committed, and a delete row only once that row
\* has been deleted.
C26_AuditFollowsTheWrite ==
    \A a \in logs : a.entity \in {"task", "comment"} =>
        /\ a.activity_type \in {"create", "update"} => Applied(a)
        /\ a.activity_type = "delete" => ~Applied(a)

\* C27: of two requests in flight that create a Project with the same owner
\* and title, or add the same user to the same team, at most one is
\* answered with success, however their steps interleave.
C27_AtMostOneSucceeds ==
    \A p \in Procs : \A q \in Procs \ {p} :
        (race[p].status = 201 /\ race[q].status = 201 /\ race[p].op = race[q].op) =>
            /\ race[p].op = "create_project" => ~(race[p].user = race[q].user /\ race[p].title = race[q].title)
            /\ race[p].op = "create_team_member" => ~(race[p].team_id = race[q].team_id /\ race[p].user_id = race[q].user_id)

\* C28: every activity row a Team, TeamMember, Project, Task or Comment
\* request writes has the requesting principal in user_id, also when the
\* row acted on belongs to another user.
C28_ActorIsThePrincipal ==
    \A c \in TeamCalls(DB) \cup MemberCalls(DB) \cup ProjectCalls(DB) \cup TaskCalls(DB) \cup CommentCalls(DB) :
        \A a \in c.resp.db.logs \ logs : a.user_id = c.user

ActivityTypes == {"create", "update", "delete"}

=============================================================================
